---- MODULE Spec2Model ----
(***************************************************************************)
(* Model of spot_wrapper/spot_dance.py: the SpotDance class.               *)
(*                                                                         *)
(* Time is counted in ticks of 0.2 s (the poll interval of execute_dance). *)
(* estimated_time_seconds is kept as an exact rational num/den seconds;    *)
(* floating-point rounding of the source's double arithmetic is not        *)
(* modelled.  Messages are sequences of text fragments: a format string's  *)
(* literal part followed by the values substituted into it.                *)
(***************************************************************************)
EXTENDS Integers, Sequences, FiniteSets, TLC

VARIABLES
    pc,                         \* position of the running call, "idle" between calls
    op,                         \* the public operation called last
    data,                       \* execute_dance argument: the routine text
    choreography,               \* execute_dance local: the parsed ChoreographySequence
    calls,                      \* collaborator calls made by the current invocation, in order
    total_choreography_slices,  \* execute_dance local
    estimated_time_seconds,     \* execute_dance local, unbound until first assigned
    start,                      \* execute_dance local: time.time() at line 146
    now,                        \* time.time(), ticks since the call began
    elapsed,                    \* time.time() - start at the last test of the loop condition
    status,                     \* execute_dance local: last status sample
    nsamples,                   \* number of status samples observed in this invocation
    nterminal,                  \* number of those that were terminal
    warnings,                   \* err.response.warnings of the caught upload error
    listing,                    \* entries the service answered to the last list query
    instance,                   \* the SpotDance object's attributes
    earlier,                    \* whether the object served a call before the current one
    result                      \* outcome of the last call: returned tuple or raised exception

vars == <<pc, op, data, choreography, calls, total_choreography_slices,
          estimated_time_seconds, start, now, elapsed, status, nsamples, nterminal,
          warnings, listing, instance, earlier, result>>

----------------------------------------------------------------------------
(* Bounds of the model *)

MaxOversleep == 1      \* time.sleep(0.2) takes 1 .. 1+MaxOversleep ticks
MaxRpcTicks == 1       \* a blocking service call takes 0 .. MaxRpcTicks ticks
MaxWarnings == 2       \* warnings carried by a ResponseError
MaxNames == 2          \* entries returned by list_all_sequences / list_all_moves

(* Program constants *)

TicksPerSecond == 5    \* one tick is the 0.2 s of time.sleep(0.2)
GraceTicks == 1        \* the + 0.2 of the loop condition
SleepTicks == 1        \* time.sleep(0.2)
SecondsPerMinute == 60 \* the * 60.0 of the estimate

----------------------------------------------------------------------------
(* Sequences helpers *)

RECURSIVE SeqsUpTo(_, _)
SeqsUpTo(S, n) ==
    IF n = 0 THEN {<<>>}
    ELSE SeqsUpTo(S, n - 1) \cup
         {Append(s, x) : s \in {t \in SeqsUpTo(S, n - 1) : Len(t) = n - 1}, x \in S}

Contains(s, x) == \E i \in 1..Len(s) : s[i] = x

----------------------------------------------------------------------------
(* Exceptions.  bosdyn: UnauthenticatedError is a ResponseError; RpcError  *)
(* is not.  Python: every one of them is an Exception.                     *)

IsInstance(exc, cls) ==
    \/ cls = "Exception"
    \/ exc = cls
    \/ exc = "UnauthenticatedError" /\ cls = "ResponseError"

NoResult == [kind |-> "none", ok |-> FALSE, msg |-> <<>>, names |-> <<>>, exc |-> ""]

Return(ok, msg) ==
    [kind |-> "return", ok |-> ok, msg |-> msg, names |-> <<>>, exc |-> ""]

Return3(ok, msg, names) ==
    [kind |-> "return", ok |-> ok, msg |-> msg, names |-> names, exc |-> ""]

Raise(exc, msg) ==
    [kind |-> "raise", ok |-> FALSE, msg |-> msg, names |-> <<>>, exc |-> exc]

----------------------------------------------------------------------------
(* Routine texts and text_format.Merge *)

Tok(f, s, n) == [f |-> f, s |-> s, n |-> n]

EmptySequence == [name |-> "", slices_per_minute |-> 0, moves |-> <<>>]

RoutineTexts ==
    { <<>>,
      <<Tok("name", "a", 0), Tok("slices_per_minute", "", 300)>>,
      <<Tok("name", "a", 0), Tok("moves", "", 1)>>,
      <<Tok("name", "a", 0), Tok("slices_per_minute", "", 300), Tok("moves", "", 1)>>,
      <<Tok("name", "a", 0), Tok("slices_per_minute", "", 300), Tok("moves", "", 2),
        Tok("moves", "", 2)>>,
      <<Tok("name", "b", 0), Tok("slices_per_minute", "", 600), Tok("moves", "", 1),
        Tok("moves", "", 1), Tok("moves", "", 1)>>,
      <<Tok("name", "b", 0), Tok("moves", "", 1), Tok("slices_per_minute", "", 600),
        Tok("moves", "", 2)>>,
      <<Tok("name", "c", 0), Tok("slices_per_minute", "", 300), Tok("moves", "", 10),
        Tok("moves", "", 20)>>,
      <<Tok("name", "n", 0), Tok("slices_per_minute", "", -300), Tok("moves", "", 2)>>,
      <<Tok("name", "a", 0), Tok("bogus", "no field named bogus", 0)>>,
      <<Tok("junk", "expected identifier", 0)>> }

\* text_format.Merge(data, choreography): fields are merged in text order, a
\* repeated field is appended to, an unknown field raises ParseError.
RECURSIVE Merge(_, _, _)
Merge(text, i, msg) ==
    IF i > Len(text) THEN [ok |-> TRUE, msg |-> msg, detail |-> ""]
    ELSE LET tok == text[i] IN
         CASE tok.f = "name" ->
                Merge(text, i + 1, [msg EXCEPT !.name = tok.s])
           [] tok.f = "slices_per_minute" ->
                Merge(text, i + 1, [msg EXCEPT !.slices_per_minute = tok.n])
           [] tok.f = "moves" ->
                Merge(text, i + 1,
                      [msg EXCEPT !.moves = Append(@, [requested_slices |-> tok.n])])
           [] OTHER -> [ok |-> FALSE, msg |-> msg, detail |-> tok.s]

----------------------------------------------------------------------------
(* Status values of ChoreographyStatusResponse and ExecuteChoreographyResponse *)

StatusValues ==
    {"STATUS_UNKNOWN", "STATUS_DANCING", "STATUS_COMPLETED_SEQUENCE", "STATUS_PREPPING",
     "STATUS_WAITING_FOR_START_TIME", "STATUS_VALIDATING", "STATUS_INTERRUPTED",
     "STATUS_FALLEN", "STATUS_POWERED_OFF", "STATUS_OTHER"}

ongoing_states ==
    {"STATUS_PREPPING", "STATUS_DANCING", "STATUS_WAITING_FOR_START_TIME",
     "STATUS_VALIDATING"}

\* The default value of the enum taken for an ongoing status.
_check_dance_completed_UnknownOngoing(s) ==
    s \notin (ongoing_states \cup {"STATUS_UNKNOWN"})

\* Only the completed status taken for the end of the dance.
_check_dance_completed_OnlyCompleted(s) == s = "STATUS_COMPLETED_SEQUENCE"

_check_dance_completed(s) == s \notin ongoing_states

ExecuteStatusValues ==
    {"STATUS_OK", "STATUS_INVALID_UPLOADED_CHOREOGRAPHY", "STATUS_ROBOT_COMMAND_ISSUES",
     "STATUS_LEASE_ERROR"}

----------------------------------------------------------------------------
(* Duration estimate, lines 139-144 *)

Unbound == [bound |-> FALSE, num |-> 0, den |-> 1]

\* total_choreography_slices / choreography.slices_per_minute * 60.0
Estimate(total, spm) == [bound |-> TRUE, num |-> total * SecondsPerMinute, den |-> spm]

\* The for loop: the estimate is reassigned in every iteration; a zero rate
\* raises ZeroDivisionError in the first iteration.
RECURSIVE EstimateLoop(_, _, _, _)
EstimateLoop(c, i, total, est) ==
    IF i > Len(c.moves) THEN [raised |-> FALSE, total |-> total, est |-> est]
    ELSE LET t == total + c.moves[i].requested_slices IN
         IF c.slices_per_minute = 0
         THEN [raised |-> TRUE, total |-> t, est |-> est]
         ELSE EstimateLoop(c, i + 1, t, Estimate(t, c.slices_per_minute))

\* The loop condition written with <= in place of <.
InWindow_Inclusive(dt, est) ==
    IF est.den > 0
    THEN (dt - GraceTicks) * est.den <= TicksPerSecond * est.num
    ELSE (dt - GraceTicks) * est.den >= TicksPerSecond * est.num

\* The loop condition without the 0.2 s margin.
InWindow_NoGrace(dt, est) ==
    IF est.den > 0
    THEN dt * est.den < TicksPerSecond * est.num
    ELSE dt * est.den > TicksPerSecond * est.num

\* time.time() - start < estimated_time_seconds + 0.2, in ticks of 0.2 s:
\* dt/5 < num/den + 1/5.
InWindow(dt, est) ==
    IF est.den > 0
    THEN (dt - GraceTicks) * est.den < TicksPerSecond * est.num
    ELSE (dt - GraceTicks) * est.den > TicksPerSecond * est.num

----------------------------------------------------------------------------
\* __init__: the three handles given to the constructor.
Attributes ==
    [_robot |-> "robot", _choreography_client |-> "choreography_client",
     _logger |-> "logger"]

Init ==
    /\ instance = Attributes
    /\ earlier = FALSE
    /\ pc = "idle"
    /\ op = "none"
    /\ data = <<>>
    /\ choreography = EmptySequence
    /\ calls = <<>>
    /\ total_choreography_slices = 0
    /\ estimated_time_seconds = Unbound
    /\ start = 0
    /\ now = 0
    /\ elapsed = 0
    /\ status = "none"
    /\ nsamples = 0
    /\ nterminal = 0
    /\ warnings = <<>>
    /\ listing = <<>>
    /\ result = NoResult

\* The estimate kept from the call before, as an attribute of the object
\* would be.
FreshFrame_KeepsEstimate ==
    /\ choreography' = EmptySequence
    /\ total_choreography_slices' = 0
    /\ UNCHANGED estimated_time_seconds
    /\ start' = 0
    /\ now' = 0
    /\ elapsed' = 0
    /\ status' = "none"
    /\ nsamples' = 0
    /\ nterminal' = 0
    /\ warnings' = <<>>

\* The locals of execute_dance do not outlive the call: a new call of any
\* operation starts from a fresh frame.
FreshFrame ==
    /\ choreography' = EmptySequence
    /\ total_choreography_slices' = 0
    /\ estimated_time_seconds' = Unbound
    /\ start' = 0
    /\ now' = 0
    /\ elapsed' = 0
    /\ status' = "none"
    /\ nsamples' = 0
    /\ nterminal' = 0
    /\ warnings' = <<>>

\* A call returns or raises: control goes back to the caller.
Finish(r) ==
    /\ pc' = "idle"
    /\ result' = r

\* One collaborator call and what it answered.
Call(fn, resp) == [fn |-> fn, resp |-> resp]

Called(fn) == \E i \in 1..Len(calls) : calls[i].fn = fn

NumCalls(fn) == Cardinality({i \in 1..Len(calls) : calls[i].fn = fn})

\* The outer handler, lines 161-162.
GenericFailure(exc) == Return(FALSE, <<"Error executing dance: ", exc>>)

----------------------------------------------------------------------------
(* execute_dance, lines 100-105: entry and the estop check *)

EstopResponses == {"estopped", "not_estopped", "RpcError"}

EstopMessage == <<"Robot is estopped. Please use an external E-Stop client">>

\* The test inverted.
EstopBlocks_Inverted(e) == e # "estopped"

\* if self._robot.is_estopped():
EstopBlocks(e) == e = "estopped"

execute_dance ==
    /\ pc = "idle"
    /\ UNCHANGED instance
    /\ earlier' = (op # "none")
    /\ \E d \in RoutineTexts, e \in EstopResponses :
         /\ op' = "execute_dance"
         /\ data' = d
         /\ calls' = <<Call("is_estopped", e)>>
         /\ FreshFrame
         /\ listing' = <<>>
         /\ IF e \notin {"estopped", "not_estopped"}
            THEN Finish(Raise(e, <<>>))
            ELSE IF EstopBlocks(e)
                 THEN Finish(Return(FALSE, EstopMessage))
                 ELSE pc' = "parse" /\ result' = NoResult

----------------------------------------------------------------------------
(* lines 106-111: parse *)

\* The exception's text left out of the message.
ParseFailure_NoDetail(detail) ==
    Return(FALSE, <<"Failed to load choreography. Raised exception: ">>)

ParseFailure(detail) ==
    Return(FALSE, <<"Failed to load choreography. Raised exception: ", detail>>)

Parse ==
    /\ pc = "parse"
    /\ UNCHANGED <<instance, earlier>>
    /\ LET m == Merge(data, 1, EmptySequence) IN
         IF m.ok
         THEN /\ choreography' = m.msg
              /\ pc' = "upload"
              /\ UNCHANGED result
         ELSE /\ Finish(ParseFailure(m.detail))
              /\ UNCHANGED choreography
    /\ UNCHANGED <<op, data, calls, total_choreography_slices, estimated_time_seconds,
                   start, now, elapsed, status, nsamples, nterminal, warnings, listing>>

----------------------------------------------------------------------------
(* lines 112-124: upload *)

WarningTexts == {"w1", "w2"}

UploadResponses ==
    {[exc |-> x, warnings |-> <<>>] : x \in {"", "UnauthenticatedError", "RpcError"}}
    \cup {[exc |-> "ResponseError", warnings |-> w] : w \in SeqsUpTo(WarningTexts, MaxWarnings)}

LicenseMessage ==
    <<"The robot ", "license",
      " must contain 'choreography' permissions to upload and execute dances.">>

\* The two except clauses in the other order: the base class is tested first.
UploadHandler_BaseFirst(exc) ==
    CASE IsInstance(exc, "ResponseError") -> "warnings"
      [] IsInstance(exc, "UnauthenticatedError") -> "license"
      [] OTHER -> "propagate"

\* The except clauses in source order; an error no clause matches propagates.
UploadHandler(exc) ==
    CASE IsInstance(exc, "UnauthenticatedError") -> "license"
      [] IsInstance(exc, "ResponseError") -> "warnings"
      [] OTHER -> "propagate"

\* error_msg = warn in place of error_msg += warn: only the last warning is kept.
AppendWarnings_Assign(error_msg, ws, i) ==
    IF i > Len(ws) THEN error_msg ELSE <<ws[Len(ws)]>>

\* for warn in err.response.warnings: error_msg += warn
RECURSIVE AppendWarnings(_, _, _)
AppendWarnings(error_msg, ws, i) ==
    IF i > Len(ws) THEN error_msg
    ELSE AppendWarnings(Append(error_msg, ws[i]), ws, i + 1)

WarningsPrefix ==
    "Choreography sequence upload failed. The following warnings were produced: "

\* A failed upload tried once more before its error is handled.
UploadChoreography_Retry ==
    /\ pc = "upload"
    /\ UNCHANGED <<instance, earlier>>
    /\ \E r \in UploadResponses :
         /\ calls' = Append(calls, Call("upload_choreography", IF r.exc = "" THEN "ok" ELSE r.exc))
         /\ IF r.exc = ""
            THEN /\ pc' = "power_on"
                 /\ UNCHANGED <<result, warnings>>
            ELSE IF ~Called("upload_choreography")
            THEN UNCHANGED <<pc, result, warnings>>
            ELSE CASE UploadHandler(r.exc) = "license" ->
                        /\ Finish(Return(FALSE, LicenseMessage))
                        /\ UNCHANGED warnings
                   [] UploadHandler(r.exc) = "warnings" ->
                        /\ warnings' = r.warnings
                        /\ Finish(Return(FALSE, AppendWarnings(<<WarningsPrefix>>, r.warnings, 1)))
                   [] OTHER ->
                        /\ Finish(Raise(r.exc, <<>>))
                        /\ UNCHANGED warnings
    /\ UNCHANGED <<op, data, choreography, total_choreography_slices,
                   estimated_time_seconds, start, now, elapsed, status, nsamples,
                   nterminal, listing>>

UploadChoreography ==
    /\ pc = "upload"
    /\ UNCHANGED <<instance, earlier>>
    /\ \E r \in UploadResponses :
         /\ calls' = Append(calls, Call("upload_choreography", IF r.exc = "" THEN "ok" ELSE r.exc))
         /\ IF r.exc = ""
            THEN /\ pc' = "power_on"
                 /\ UNCHANGED <<result, warnings>>
            ELSE CASE UploadHandler(r.exc) = "license" ->
                        /\ Finish(Return(FALSE, LicenseMessage))
                        /\ UNCHANGED warnings
                   [] UploadHandler(r.exc) = "warnings" ->
                        /\ warnings' = r.warnings
                        /\ Finish(Return(FALSE, AppendWarnings(<<WarningsPrefix>>, r.warnings, 1)))
                   [] OTHER ->
                        /\ Finish(Raise(r.exc, <<>>))
                        /\ UNCHANGED warnings
    /\ UNCHANGED <<op, data, choreography, total_choreography_slices,
                   estimated_time_seconds, start, now, elapsed, status, nsamples,
                   nterminal, listing>>

----------------------------------------------------------------------------
(* lines 125-126: power on *)

PowerOnResponses == {"ok", "PowerError"}

\* power_on called before the try block: its error reaches the caller.
PowerOn_OutsideTry ==
    /\ pc = "power_on"
    /\ UNCHANGED <<instance, earlier>>
    /\ \E r \in PowerOnResponses :
         /\ calls' = Append(calls, Call("power_on", r))
         /\ IF r = "ok"
            THEN pc' = "execute" /\ UNCHANGED result
            ELSE Finish(Raise(r, <<>>))
    /\ UNCHANGED <<op, data, choreography, total_choreography_slices,
                   estimated_time_seconds, start, now, elapsed, status, nsamples,
                   nterminal, warnings, listing>>

PowerOn ==
    /\ pc = "power_on"
    /\ UNCHANGED <<instance, earlier>>
    /\ \E r \in PowerOnResponses :
         /\ calls' = Append(calls, Call("power_on", r))
         /\ IF r = "ok"
            THEN pc' = "execute" /\ UNCHANGED result
            ELSE Finish(GenericFailure(r))
    /\ UNCHANGED <<op, data, choreography, total_choreography_slices,
                   estimated_time_seconds, start, now, elapsed, status, nsamples,
                   nterminal, warnings, listing>>

----------------------------------------------------------------------------
(* lines 127-138: the execute request *)

ExecuteResponses == ExecuteStatusValues \cup {"RpcError"}

\* The status test left out.
ExecuteRejected_Unchecked(r) == FALSE

\* if response.status != ...ExecuteChoreographyResponse.Status.STATUS_OK
ExecuteRejected(r) == r # "STATUS_OK"

ExecuteChoreography ==
    /\ pc = "execute"
    /\ UNCHANGED <<instance, earlier>>
    /\ \E r \in ExecuteResponses, d \in 0..MaxRpcTicks :
         /\ calls' = Append(calls, Call("execute_choreography", r))
         /\ now' = now + d
         /\ IF r \notin ExecuteStatusValues
            THEN Finish(GenericFailure(r))
            ELSE IF ExecuteRejected(r)
                 THEN Finish(Return(FALSE,
                        <<"Issue calling execute_choreography, got response.status: ", r>>))
                 ELSE pc' = "estimate" /\ UNCHANGED result
    /\ UNCHANGED <<op, data, choreography, total_choreography_slices,
                   estimated_time_seconds, start, elapsed, status, nsamples, nterminal,
                   warnings, listing>>

----------------------------------------------------------------------------
(* lines 139-146: the estimate and the loop's start time *)

EstimateDuration ==
    /\ pc = "estimate"
    /\ UNCHANGED <<instance, earlier>>
    /\ LET e == EstimateLoop(choreography, 1, 0, Unbound) IN
         /\ total_choreography_slices' = e.total
         /\ estimated_time_seconds' = e.est
         /\ IF e.raised
            THEN /\ Finish(GenericFailure("ZeroDivisionError"))
                 /\ UNCHANGED start
            ELSE /\ start' = now
                 /\ pc' = "loop"
                 /\ UNCHANGED result
    /\ UNCHANGED <<op, data, choreography, calls, now, elapsed, status, nsamples,
                   nterminal, warnings, listing>>

----------------------------------------------------------------------------
(* lines 147, 157-160: the loop condition and the timeout *)

TimeoutMessage ==
    <<"Call to execute_choreography did not return completion state in stipulated time">>

LoopCheck ==
    /\ pc = "loop"
    /\ UNCHANGED <<instance, earlier>>
    /\ elapsed' = now - start
    /\ IF ~estimated_time_seconds.bound
       THEN Finish(GenericFailure("UnboundLocalError"))
       ELSE IF InWindow(now - start, estimated_time_seconds)
            THEN pc' = "poll" /\ UNCHANGED result
            ELSE Finish(Raise("CommandTimedOutError", TimeoutMessage))
    /\ UNCHANGED <<op, data, choreography, calls, total_choreography_slices,
                   estimated_time_seconds, start, now, status, nsamples, nterminal,
                   warnings, listing>>

----------------------------------------------------------------------------
(* lines 148-155: one status poll *)

StatusResponses == StatusValues \cup {"RpcError"}

\* The values of the enum that are not one of the four ongoing ones.
TerminalStatusValues ==
    {"STATUS_UNKNOWN", "STATUS_COMPLETED_SEQUENCE", "STATUS_INTERRUPTED", "STATUS_FALLEN",
     "STATUS_POWERED_OFF", "STATUS_OTHER"}

\* The comparison made against another value of the enum.
IsCompletedSequence_WrongValue(s) == s = "STATUS_UNKNOWN"

\* status == ...Status.STATUS_COMPLETED_SEQUENCE
IsCompletedSequence(s) == s = "STATUS_COMPLETED_SEQUENCE"

GetChoreographyStatus ==
    /\ pc = "poll"
    /\ UNCHANGED <<instance, earlier>>
    /\ \E r \in StatusResponses, d \in 0..MaxRpcTicks :
         /\ now' = now + d
         /\ IF r \notin StatusValues
            THEN /\ calls' = Append(calls, Call("get_choreography_status", r))
                 /\ Finish(GenericFailure(r))
                 /\ UNCHANGED <<status, nsamples, nterminal>>
            ELSE /\ calls' = Append(calls, Call("get_choreography_status", "sample"))
                 /\ status' = r
                 /\ nsamples' = nsamples + 1
                 /\ nterminal' = nterminal + (IF r \in TerminalStatusValues THEN 1 ELSE 0)
                 /\ IF _check_dance_completed(r)
                    THEN IF IsCompletedSequence(r)
                         THEN Finish(Return(TRUE, <<"success">>))
                         ELSE Finish(Return(FALSE,
                                <<"call to execute_choreography returned unsuccessful status: ",
                                  r>>))
                    ELSE /\ pc' = "sleep"
                         /\ UNCHANGED result
    /\ UNCHANGED <<op, data, choreography, total_choreography_slices,
                   estimated_time_seconds, start, elapsed, warnings, listing>>

----------------------------------------------------------------------------
(* line 156: time.sleep(0.2) *)

Sleep ==
    /\ pc = "sleep"
    /\ UNCHANGED <<instance, earlier>>
    /\ \E d \in SleepTicks..(SleepTicks + MaxOversleep) : now' = now + d
    /\ pc' = "loop"
    /\ UNCHANGED <<op, data, choreography, calls, total_choreography_slices,
                   estimated_time_seconds, start, elapsed, status, nsamples, nterminal,
                   warnings, listing, result>>

----------------------------------------------------------------------------
(* upload_animation, lines 37-63 *)

AnimationNames == {[text |-> "wave", sep |-> FALSE], [text |-> "dir/wave", sep |-> TRUE]}

ConvertResponses == {"ok", "ConversionError"}

UploadAnimatedMoveResponses == {"ok", "UnauthenticatedError", "ResponseError", "RpcError"}

ConvertFailedPrefix == <<"Failed to ", "convert", " animation file to protobuf message: ">>

UploadFailedPrefix == "Failed to upload animation: "

\* The upload made outside a try block: a service error propagates.
upload_animation_outcome_NoUploadTry(name, conv, up) ==
    IF name.sep
    THEN [calls |-> <<>>, result |-> Raise("FileNotFoundError", <<>>)]
    ELSE IF conv # "ok"
    THEN [calls |-> <<Call("convert_animation_file_to_proto", conv)>>,
          result |-> Return(FALSE, Append(ConvertFailedPrefix, conv))]
    ELSE [calls |-> <<Call("convert_animation_file_to_proto", conv),
                      Call("upload_animated_move", up)>>,
          result |-> IF up # "ok" THEN Raise(up, <<>>) ELSE Return(TRUE, <<"Success">>)]

\* The calls made and the outcome.  A name with a path separator makes the
\* open() of line 44 fail, outside both try blocks.
upload_animation_outcome(name, conv, up) ==
    IF name.sep
    THEN [calls |-> <<>>, result |-> Raise("FileNotFoundError", <<>>)]
    ELSE IF conv # "ok"
    THEN [calls |-> <<Call("convert_animation_file_to_proto", conv)>>,
          result |-> Return(FALSE, Append(ConvertFailedPrefix, conv))]
    ELSE IF up # "ok"
    THEN [calls |-> <<Call("convert_animation_file_to_proto", conv),
                      Call("upload_animated_move", up)>>,
          result |-> Return(FALSE, <<UploadFailedPrefix, up>>)]
    ELSE [calls |-> <<Call("convert_animation_file_to_proto", conv),
                      Call("upload_animated_move", up)>>,
          result |-> Return(TRUE, <<"Success">>)]

upload_animation ==
    /\ pc = "idle"
    /\ UNCHANGED instance
    /\ earlier' = (op # "none")
    /\ \E name \in AnimationNames, conv \in ConvertResponses,
          up \in UploadAnimatedMoveResponses :
         LET o == upload_animation_outcome(name, conv, up) IN
         /\ op' = "upload_animation"
         /\ calls' = o.calls
         /\ result' = o.result
    /\ data' = <<>>
    /\ listing' = <<>>
    /\ FreshFrame
    /\ UNCHANGED pc

----------------------------------------------------------------------------
(* list_all_dances and list_all_moves, lines 65-89 *)

EntryNames == {"a", "b"}

\* An entry of sequence_info or of moves: a name and further fields.
Entries == {[name |-> n, is_extension |-> n = "b"] : n \in EntryNames}

ListResponses ==
    {[exc |-> "", entries |-> es] : es \in SeqsUpTo(Entries, MaxNames)}
    \cup {[exc |-> x, entries |-> <<>>] : x \in {"RpcError", "ResponseError"}}

\* The names collected in reverse order.
Names_Reversed(entries) ==
    [i \in 1..Len(entries) |-> entries[Len(entries) + 1 - i].name]

\* [dance.name for dance in dances]
Names(entries) == [i \in 1..Len(entries) |-> entries[i].name]

list_outcome(query, r) ==
    IF r.exc = ""
    THEN Return3(TRUE, <<"success">>, Names(r.entries))
    ELSE Return3(FALSE,
                 <<"request to choreography client for ", query, " failed. Msg: ", r.exc>>,
                 <<>>)

list_all_dances ==
    /\ pc = "idle"
    /\ UNCHANGED instance
    /\ earlier' = (op # "none")
    /\ \E r \in ListResponses :
         /\ op' = "list_all_dances"
         /\ calls' = <<Call("list_all_sequences", IF r.exc = "" THEN "ok" ELSE r.exc)>>
         /\ listing' = r.entries
         /\ result' = list_outcome("dances", r)
    /\ data' = <<>>
    /\ FreshFrame
    /\ UNCHANGED pc

list_all_moves ==
    /\ pc = "idle"
    /\ UNCHANGED instance
    /\ earlier' = (op # "none")
    /\ \E r \in ListResponses :
         /\ op' = "list_all_moves"
         /\ calls' = <<Call("list_all_moves", IF r.exc = "" THEN "ok" ELSE r.exc)>>
         /\ listing' = r.entries
         /\ result' = list_outcome("moves", r)
    /\ data' = <<>>
    /\ FreshFrame
    /\ UNCHANGED pc

----------------------------------------------------------------------------
Next ==
    \/ execute_dance
    \/ Parse
    \/ UploadChoreography
    \/ PowerOn
    \/ ExecuteChoreography
    \/ EstimateDuration
    \/ LoopCheck
    \/ GetChoreographyStatus
    \/ Sleep
    \/ upload_animation
    \/ list_all_dances
    \/ list_all_moves

Spec == Init /\ [][Next]_vars

\* The steps of a running execute_dance call.  The call is a blocking
\* sequence: every collaborator call and every sleep returns, so the step the
\* call is at is eventually taken.
ExecuteDanceStep ==
    \/ Parse
    \/ UploadChoreography
    \/ PowerOn
    \/ ExecuteChoreography
    \/ EstimateDuration
    \/ LoopCheck
    \/ GetChoreographyStatus
    \/ Sleep

FairSpec == Spec /\ WF_vars(ExecuteDanceStep)

----------------------------------------------------------------------------
(* Properties *)

ServiceCalls ==
    {"upload_choreography", "power_on", "execute_choreography", "get_choreography_status"}

NoCallTo(fns) == \A i \in 1..Len(calls) : calls[i].fn \notin fns

Answered(fn, resp) == \E i \in 1..Len(calls) : calls[i] = Call(fn, resp)

ReturnedFailure ==
    /\ pc = "idle"
    /\ result.kind = "return"
    /\ ~result.ok
    /\ Len(result.msg) > 0

\* C3: whenever the robot reported estop at the start of execute_dance, the
\* call has returned (False, message) and has made no service call: no
\* upload_choreography, power_on, execute_choreography or
\* get_choreography_status.
C3_EstopNoServiceCall ==
    (op = "execute_dance" /\ Answered("is_estopped", "estopped"))
        => (ReturnedFailure /\ NoCallTo(ServiceCalls))

C3_Witness ==
    /\ op = "execute_dance"
    /\ calls = <<Call("is_estopped", "estopped")>>
    /\ result = Return(FALSE, EstopMessage)
    /\ Len(data) > 0

ParseStepDone == op = "execute_dance" /\ pc # "parse" /\ Answered("is_estopped", "not_estopped")

\* C4: once the parse step has run on a routine text that does not parse,
\* execute_dance has returned (False, message) with the parser's error detail
\* in the message, and no upload_choreography, power_on or
\* execute_choreography call was made.
C4_ParseFailure ==
    (ParseStepDone /\ ~Merge(data, 1, EmptySequence).ok)
        => /\ ReturnedFailure
           /\ Contains(result.msg, Merge(data, 1, EmptySequence).detail)
           /\ NoCallTo({"upload_choreography", "power_on", "execute_choreography"})

C4_Witness ==
    /\ ParseStepDone
    /\ data = <<Tok("name", "a", 0), Tok("bogus", "no field named bogus", 0)>>
    /\ pc = "idle"
    /\ Contains(result.msg, "no field named bogus")

\* C6: when upload_choreography raised an authorization error
\* (UnauthenticatedError), execute_dance has returned (False, message) with
\* a message that mentions the license, and neither power_on nor
\* execute_choreography was called.
C6_LicenseFailure ==
    (op = "execute_dance" /\ Answered("upload_choreography", "UnauthenticatedError"))
        => /\ ReturnedFailure
           /\ Contains(result.msg, "license")
           /\ NoCallTo({"power_on", "execute_choreography"})

C6_Witness ==
    /\ op = "execute_dance"
    /\ pc = "idle"
    /\ Answered("upload_choreography", "UnauthenticatedError")
    /\ result = Return(FALSE, LicenseMessage)

\* C8: when upload_choreography raised a validation error (ResponseError)
\* carrying warnings w1..wk, k >= 1, execute_dance has returned (False,
\* message) and the message is its fixed prefix followed by exactly w1, ..,
\* wk in the order the service gave them.
C8_WarningsInOrder ==
    (op = "execute_dance" /\ Answered("upload_choreography", "ResponseError")
       /\ Len(warnings) >= 1)
        => /\ ReturnedFailure
           /\ Len(result.msg) = 1 + Len(warnings)
           /\ \A i \in 1..Len(warnings) : result.msg[1 + i] = warnings[i]

C8_Witness ==
    /\ op = "execute_dance"
    /\ pc = "idle"
    /\ Answered("upload_choreography", "ResponseError")
    /\ warnings = <<"w2", "w1">>
    /\ result = Return(FALSE, <<WarningsPrefix, "w2", "w1">>)

\* C5: a status sample of 'completed sequence' makes execute_dance return
\* (True, ...) at that poll, also when the poll was made exactly at the
\* estimated time; and execute_dance returns success only when the sample it
\* has just observed is 'completed sequence' and every earlier sample was
\* ongoing.
C5_SuccessOnCompletedSample ==
    op = "execute_dance" =>
        /\ status = "STATUS_COMPLETED_SEQUENCE"
             => (pc = "idle" /\ result.kind = "return" /\ result.ok)
        /\ (result.kind = "return" /\ result.ok)
             => /\ pc = "idle"
                /\ status = "STATUS_COMPLETED_SEQUENCE"
                /\ calls[Len(calls)] = Call("get_choreography_status", "sample")
                /\ nsamples >= 1
                /\ nterminal = 1

\* The last poll was made exactly at the estimated time, after ongoing samples.
C5_Witness ==
    /\ op = "execute_dance"
    /\ pc = "idle"
    /\ result = Return(TRUE, <<"success">>)
    /\ status = "STATUS_COMPLETED_SEQUENCE"
    /\ nsamples > 1
    /\ estimated_time_seconds.bound
    /\ elapsed * estimated_time_seconds.den = TicksPerSecond * estimated_time_seconds.num

ConversionFailed == \E i \in 1..Len(calls) :
    calls[i].fn = "convert_animation_file_to_proto" /\ calls[i].resp # "ok"

AnimationUploadFailed == \E i \in 1..Len(calls) :
    calls[i].fn = "upload_animated_move" /\ calls[i].resp # "ok"

\* C9: upload_animation returns (True, "Success") exactly when the conversion
\* and the service upload both succeeded; when the conversion failed it
\* returns (False, message mentioning the conversion) and
\* upload_animated_move was not called; when the service upload raised it
\* returns (False, message) and raises nothing.
C9_UploadAnimationOutcome ==
    op = "upload_animation" =>
        /\ (result.kind = "return" /\ result.ok)
             <=> (Answered("convert_animation_file_to_proto", "ok")
                  /\ Answered("upload_animated_move", "ok"))
        /\ (result.kind = "return" /\ result.ok) => result.msg = <<"Success">>
        /\ ConversionFailed
             => /\ ReturnedFailure
                /\ Contains(result.msg, "convert")
                /\ NoCallTo({"upload_animated_move"})
        /\ AnimationUploadFailed => ReturnedFailure

C9_Witness ==
    /\ op = "upload_animation"
    /\ Answered("convert_animation_file_to_proto", "ok")
    /\ Answered("upload_animated_move", "UnauthenticatedError")
    /\ result = Return(FALSE, <<UploadFailedPrefix, "UnauthenticatedError">>)

\* C10: list_all_dances and list_all_moves return (True, "success", names)
\* with names the names of the service's entries, in the same order and of
\* the same length, when the query succeeded; and (False, message, []) with
\* an empty list, raising nothing, when the query failed.
C10_ListOutcome ==
    op \in {"list_all_dances", "list_all_moves"} =>
        /\ pc = "idle"
        /\ result.kind = "return"
        /\ Len(calls) = 1
        /\ calls[1].fn = (IF op = "list_all_dances" THEN "list_all_sequences"
                                                     ELSE "list_all_moves")
        /\ IF calls[1].resp = "ok"
           THEN /\ result.ok
                /\ result.msg = <<"success">>
                /\ Len(result.names) = Len(listing)
                /\ \A i \in 1..Len(listing) : result.names[i] = listing[i].name
           ELSE /\ ~result.ok
                /\ Len(result.msg) > 0
                /\ result.names = <<>>

C10_Witness ==
    /\ op = "list_all_moves"
    /\ Len(listing) = 2
    /\ listing[1].name = "b"
    /\ listing[2].name = "a"
    /\ result = Return3(TRUE, <<"success">>, <<"b", "a">>)

----------------------------------------------------------------------------
(* Statements the code does not meet *)

ErrorResponses ==
    {"RpcError", "UnauthenticatedError", "ResponseError", "PowerError"}

\* C1: a routine whose upload succeeded and whose execute request returned
\* OK, with a defined estimate (non-zero rate) and only ongoing status samples
\* throughout the window, ends execute_dance by raising CommandTimedOutError,
\* never by returning a tuple.
C1_TimeoutRaised ==
    (/\ op = "execute_dance"
     /\ pc = "idle"
     /\ Answered("execute_choreography", "STATUS_OK")
     /\ choreography.slices_per_minute # 0
     /\ nterminal = 0
     /\ ~Answered("get_choreography_status", "RpcError"))
        => (result.kind = "raise" /\ result.exc = "CommandTimedOutError")

\* C2: execute_dance raises nothing but the timeout: when a collaborator call
\* failed at any step (estop query, upload_choreography, power_on,
\* execute_choreography, get_choreography_status) it has returned (False,
\* message).
C2_OnlyTimeoutRaised ==
    (op = "execute_dance" /\ pc = "idle")
        => /\ result.kind = "raise" => result.exc = "CommandTimedOutError"
           /\ (\E i \in 1..Len(calls) : calls[i].resp \in ErrorResponses)
                => ReturnedFailure

Uniform(c) ==
    \A i, j \in 1..Len(c.moves) : c.moves[i].requested_slices = c.moves[j].requested_slices

RatEq(a, b) == a.num * b.den = b.num * a.den

\* C7: for a routine of N moves of S slices each at rate R, once the estimate
\* step has run the estimate that bounds the polling window is defined and
\* equals N*S/R*60.
C7_EstimateValue ==
    (/\ op = "execute_dance"
     /\ pc \in {"loop", "poll", "sleep"}
     /\ Uniform(choreography)
     /\ choreography.slices_per_minute # 0)
        => LET N == Len(choreography.moves)
               S == IF N = 0 THEN 0 ELSE choreography.moves[1].requested_slices
           IN  /\ estimated_time_seconds.bound
               /\ RatEq(estimated_time_seconds,
                        [num |-> N * S * SecondsPerMinute,
                         den |-> choreography.slices_per_minute])

----------------------------------------------------------------------------
(* Status polling *)

OngoingFour ==
    {"STATUS_PREPPING", "STATUS_DANCING", "STATUS_WAITING_FOR_START_TIME",
     "STATUS_VALIDATING"}

TimedOut == pc = "idle" /\ result = Raise("CommandTimedOutError", TimeoutMessage)

\* C11: a status is terminal exactly when it is none of prepping, dancing,
\* waiting-for-start-time, validating (the unknown value and every error
\* status are terminal).  While the last sample is ongoing the call goes on
\* polling, or ends by the timeout or by a failed status call.  A terminal
\* sample ends the call at once: 'completed sequence' as success, any other
\* as (False, message holding that status value), never as success or timeout.
C11_StatusClassification ==
    /\ \A s \in StatusValues : _check_dance_completed(s) <=> s \notin OngoingFour
    /\ (op = "execute_dance" /\ nsamples >= 1) =>
          IF status \in OngoingFour
          THEN \/ pc \in {"sleep", "loop", "poll"}
               \/ TimedOut
               \/ pc = "idle" /\ result = GenericFailure("RpcError")
          ELSE /\ pc = "idle"
               /\ result.kind = "return"
               /\ IF status = "STATUS_COMPLETED_SEQUENCE"
                  THEN result.ok
                  ELSE ~result.ok /\ Contains(result.msg, status)

C11_Witness ==
    /\ op = "execute_dance"
    /\ pc = "idle"
    /\ nsamples > 1
    /\ status = "STATUS_UNKNOWN"
    /\ result = Return(FALSE,
         <<"call to execute_choreography returned unsuccessful status: ", "STATUS_UNKNOWN">>)

ExecuteRefused == \E i \in 1..Len(calls) :
    /\ calls[i].fn = "execute_choreography"
    /\ calls[i].resp \in ExecuteStatusValues \ {"STATUS_OK"}

\* C12: when execute_choreography answered a status other than OK,
\* execute_dance has returned (False, message holding that status code) and
\* made no get_choreography_status call; a status poll is made only after an
\* OK answer to the execute request.
C12_ExecuteRefused ==
    op = "execute_dance" =>
        /\ ExecuteRefused
             => /\ ReturnedFailure
                /\ Contains(result.msg, calls[Len(calls)].resp)
                /\ calls[Len(calls)].fn = "execute_choreography"
                /\ NoCallTo({"get_choreography_status"})
        /\ (Called("get_choreography_status") \/ pc \in {"estimate", "loop", "poll", "sleep"})
             => Answered("execute_choreography", "STATUS_OK")

C12_Witness ==
    /\ op = "execute_dance"
    /\ Answered("execute_choreography", "STATUS_LEASE_ERROR")
    /\ result = Return(FALSE,
         <<"Issue calling execute_choreography, got response.status: ", "STATUS_LEASE_ERROR">>)

\* elapsed >= estimated_time_seconds + 0.2, the window of line 147 being over.
WindowOver ==
    /\ estimated_time_seconds.bound
    /\ IF estimated_time_seconds.den > 0
       THEN (elapsed - GraceTicks) * estimated_time_seconds.den
              >= TicksPerSecond * estimated_time_seconds.num
       ELSE (elapsed - GraceTicks) * estimated_time_seconds.den
              <= TicksPerSecond * estimated_time_seconds.num

\* C13: a started routine (upload succeeded, execute request answered OK) of
\* positive rate, the move list possibly empty, with a status endpoint that
\* never errors, ends execute_dance in one of three ways and only after at
\* least one status sample: success on a 'completed sequence' sample, failure
\* on another terminal sample, or the timeout once the window is over.
C13_ThreeOutcomes ==
    (/\ op = "execute_dance"
     /\ pc = "idle"
     /\ Answered("execute_choreography", "STATUS_OK")
     /\ choreography.slices_per_minute > 0
     /\ ~Answered("get_choreography_status", "RpcError"))
        => /\ nsamples >= 1
           /\ \/ result = Return(TRUE, <<"success">>) /\ status = "STATUS_COMPLETED_SEQUENCE"
              \/ /\ ReturnedFailure
                 /\ status \in TerminalStatusValues \ {"STATUS_COMPLETED_SEQUENCE"}
                 /\ Contains(result.msg, status)
              \/ TimedOut /\ WindowOver

\* C14: a terminal sample ends the loop: at most one terminal sample is
\* observed in an invocation, it is the last collaborator call of the
\* invocation (no status call follows it), and the call has returned on it.
C14_TerminalEndsLoop ==
    op = "execute_dance" =>
        /\ nterminal <= 1
        /\ nterminal = 1
             => /\ pc = "idle"
                /\ result.kind = "return"
                /\ calls[Len(calls)] = Call("get_choreography_status", "sample")
                /\ status \in TerminalStatusValues
                /\ NumCalls("get_choreography_status") = nsamples

C14_Witness ==
    /\ op = "execute_dance"
    /\ pc = "idle"
    /\ nterminal = 1
    /\ nsamples >= 3
    /\ status = "STATUS_FALLEN"
    /\ calls[Len(calls)] = Call("get_choreography_status", "sample")

----------------------------------------------------------------------------
(* Call protocol *)

\* C15: when power_on failed, execute_dance has returned the generic failure
\* (False, "Error executing dance: <detail>") and has issued no
\* execute_choreography request and no status poll; and every execute request
\* is preceded by a power_on request in the same invocation.
C15_PowerOnFailure ==
    op = "execute_dance" =>
        /\ Answered("power_on", "PowerError")
             => /\ pc = "idle"
                /\ result = Return(FALSE, <<"Error executing dance: ", "PowerError">>)
                /\ NoCallTo({"execute_choreography", "get_choreography_status"})
        /\ \A i \in 1..Len(calls) :
             calls[i].fn = "execute_choreography"
                => \E j \in 1..(i - 1) : calls[j].fn = "power_on"

C15_Witness ==
    /\ op = "execute_dance"
    /\ pc = "idle"
    /\ calls = <<Call("is_estopped", "not_estopped"), Call("upload_choreography", "ok"),
                 Call("power_on", "PowerError")>>
    /\ result.kind = "return"

\* C16: in one invocation upload_choreography is called at most once and
\* execute_choreography at most once, and the execute request is the fourth
\* call, made after the estop check passed, the routine text parsed,
\* upload_choreography returned without error and power_on returned without
\* error.
C16_CallProtocol ==
    op = "execute_dance" =>
        /\ NumCalls("upload_choreography") <= 1
        /\ NumCalls("execute_choreography") <= 1
        /\ Called("execute_choreography")
             => /\ Merge(data, 1, EmptySequence).ok
                /\ choreography = Merge(data, 1, EmptySequence).msg
                /\ Len(calls) >= 4
                /\ calls[1] = Call("is_estopped", "not_estopped")
                /\ calls[2] = Call("upload_choreography", "ok")
                /\ calls[3] = Call("power_on", "ok")
                /\ calls[4].fn = "execute_choreography"

C16_Witness ==
    /\ op = "execute_dance"
    /\ pc = "idle"
    /\ NumCalls("upload_choreography") = 1
    /\ NumCalls("execute_choreography") = 1
    /\ nsamples >= 2
    /\ result = Return(TRUE, <<"success">>)

----------------------------------------------------------------------------
(* Bounded polling *)

\* k <= ceil((estimated_time_seconds + 0.2) / 0.2), that is k - 1 < the window
\* in ticks, 5 * num / den + 1.
WithinCeilOfWindow(k) ==
    IF estimated_time_seconds.den > 0
    THEN (k - 1 - GraceTicks) * estimated_time_seconds.den
           < TicksPerSecond * estimated_time_seconds.num
    ELSE (k - 1 - GraceTicks) * estimated_time_seconds.den
           > TicksPerSecond * estimated_time_seconds.num

\* C17, as stated: in one invocation the number of status polls is at most
\* ceil((estimated_time_seconds + 0.2) / 0.2).
C17_PollBoundAsStated ==
    (op = "execute_dance" /\ estimated_time_seconds.bound)
        => WithinCeilOfWindow(NumCalls("get_choreography_status"))

PollBound ==
    (op = "execute_dance" /\ estimated_time_seconds.bound)
        => \/ NumCalls("get_choreography_status") = 0
           \/ WithinCeilOfWindow(NumCalls("get_choreography_status"))

\* C17, amended: with every collaborator call returning and the clock
\* advancing by at least 0.2 s between consecutive polls, a running
\* execute_dance call always terminates (returns or raises), and the number
\* of status polls of one invocation is at most
\* max(0, ceil((estimated_time_seconds + 0.2) / 0.2)).
C17_BoundedPolling ==
    /\ []PollBound
    /\ (pc # "idle") ~> (pc = "idle")

\* The timeout reached with as many polls as the bound allows.
C17_Witness ==
    /\ op = "execute_dance"
    /\ TimedOut
    /\ NumCalls("get_choreography_status") >= 2
    /\ WithinCeilOfWindow(NumCalls("get_choreography_status"))
    /\ ~WithinCeilOfWindow(NumCalls("get_choreography_status") + 1)

\* C18: whenever execute_dance has raised the timeout, the execute request
\* had been issued and answered OK, every status sample of the invocation was
\* an ongoing one, and the time elapsed since polling started, read at the
\* loop condition, is at least estimated_time_seconds + 0.2.
C18_TimeoutOnlyAfterWindow ==
    (op = "execute_dance" /\ result.kind = "raise" /\ result.exc = "CommandTimedOutError")
        => /\ pc = "idle"
           /\ Len(calls) >= 4
           /\ calls[4] = Call("execute_choreography", "STATUS_OK")
           /\ nterminal = 0
           /\ nsamples >= 1 => status \in OngoingFour
           /\ \A i \in 5..Len(calls) : calls[i] = Call("get_choreography_status", "sample")
           /\ WindowOver
           /\ elapsed <= now - start

C18_Witness ==
    /\ op = "execute_dance"
    /\ TimedOut
    /\ nsamples >= 2
    /\ status = "STATUS_DANCING"
    /\ WindowOver
    /\ estimated_time_seconds.den > 0

----------------------------------------------------------------------------
(* No state across calls *)

NumSamples == Cardinality({i \in 1..Len(calls) :
                             calls[i] = Call("get_choreography_status", "sample")})

\* C19: no operation changes the object's attributes (robot handle,
\* choreography client, logger), and nothing of an earlier call is retained.
\* After upload_animation or a list operation no routine, estimate or sample
\* is held.  In execute_dance, whatever calls preceded it, the routine is the
\* parse of this call's text, the total and the estimate are unset until this
\* call's execute request was answered OK and are then those of this call's
\* routine, the samples counted are those of this call's status polls, and a
\* started routine with no moves ends the same way every time.
C19_NoStateAcrossCalls ==
    /\ instance = Attributes
    /\ op \in {"none", "upload_animation", "list_all_dances", "list_all_moves"}
         => /\ pc = "idle"
            /\ data = <<>>
            /\ choreography = EmptySequence
            /\ estimated_time_seconds = Unbound
            /\ total_choreography_slices = 0
            /\ nsamples = 0
            /\ status = "none"
            /\ warnings = <<>>
    /\ op = "execute_dance"
         => LET m == Merge(data, 1, EmptySequence)
                e == EstimateLoop(m.msg, 1, 0, Unbound)
            IN  /\ choreography = (IF m.ok /\ ParseStepDone THEN m.msg ELSE EmptySequence)
                /\ listing = <<>>
                /\ nsamples = NumSamples
                /\ (nsamples = 0) <=> (status = "none")
                /\ Len(warnings) > 0 => Answered("upload_choreography", "ResponseError")
                /\ IF Answered("execute_choreography", "STATUS_OK") /\ pc # "estimate"
                   THEN /\ estimated_time_seconds = e.est
                        /\ total_choreography_slices = e.total
                   ELSE /\ estimated_time_seconds = Unbound
                        /\ total_choreography_slices = 0
                        /\ nsamples = 0
                /\ (/\ pc = "idle"
                    /\ Answered("execute_choreography", "STATUS_OK")
                    /\ choreography.moves = <<>>)
                     => result = GenericFailure("UnboundLocalError")

\* A second execute_dance on the same object, ended by a refused routine.
C19_Witness ==
    /\ earlier
    /\ op = "execute_dance"
    /\ pc = "idle"
    /\ Answered("upload_choreography", "ResponseError")
    /\ estimated_time_seconds = Unbound
    /\ instance = Attributes

====
